---- MODULE Spec2Model ----
(***************************************************************************)
(* Block-device performance pipeline of the integration tests              *)
(* (tests/integration_tests/performance/test_block_performance.py) and the *)
(* offline baseline builder (tools/parse_baselines/providers/types.py).    *)
(*                                                                         *)
(* Four specifications share the variables below; each one drives one part *)
(* of the program and leaves the variables of the other parts untouched:   *)
(*   SpecRead  - read_values applied to bounded worker logs                *)
(*   SpecGet   - BlockBaselinesProvider.__init__ and .get                  *)
(*   SpecPipe  - run_fio / consume_fio_output over the results directory   *)
(*   SpecParse - DataParser.parse over bounded historical records          *)
(*                                                                         *)
(* Python values: a dict whose iteration order matters is an association   *)
(* list (a sequence of <<key, value>> pairs in insertion order); an        *)
(* exception is recorded by its class name.                                *)
(***************************************************************************)
EXTENDS Integers, Sequences, FiniteSets, TLC

VARIABLES
    \* ---- read_values (SpecRead) ----
    rv_numjobs,     \* argument numjobs
    rv_mode,        \* argument mode
    rv_meas,        \* argument measurement
    rv_files,       \* content of results/<env_id>/<mode><bs>/: file name -> lines
    rv_pc,          \* "ready" | "returned" | "raised"
    rv_err,         \* exception read_values raised, "none" otherwise
    rv_values,      \* the local dict `values` when read_values stopped
    rv_calls,       \* cons.consume_data calls made, in order: <<id, value, idx>>
    \* ---- BlockBaselinesProvider (SpecGet) ----
    cfg_cpus,       \* CONFIG["hosts"]["instances"]["m5d.metal"]["cpus"]
    host_cpu,       \* get_cpu_model_name()
    bp_baselines,   \* self._baselines: the dict the DictQuery wraps
    bp_pc,          \* "new" | "built" | "returned" | "raised"
    get_args,       \* <<ms_name, st_name>> of the last get
    get_ret,        \* what get returned
    get_err,        \* exception get raised, "none" otherwise
    \* ---- run_fio / consume_fio_output (SpecPipe) ----
    pc,             \* where the test's thread is
    sampler,        \* the get_cpu_percent task: "none" | "running" | "done" | "failed"
    fio,            \* the fio command in the guest: "none" | "running" | "ok" | "failed"
    cpu_load,       \* what get_cpu_percent returned: tag -> list of sample series
    vcpus_count,    \* basevm.vcpus_count of the microvm in use, 0 before the first boot
    cur_mode,       \* argument mode of the pipe in progress
    runs,           \* number of run_fio invocations so far
    guest,          \* *.log files in the guest: name -> [lines, run]
    host,           \* results/<env_id>/: <mode><bs> -> [exists, files]
    result,         \* what run_fio returned
    exc,            \* exception in flight or raised, "none" otherwise
    cons_stat,      \* cons.consume_stat calls of the pipe
    cons_data,      \* cons.consume_data calls of the pipe
    last_run,       \* <mode><bs> -> number of the latest run_fio invocation for it
    had_leftover,   \* history: run_fio found the directory of an earlier invocation
    \* ---- DataParser (SpecParse) ----
    dp_input,       \* every line the data provider holds (never changes)
    dp_lines,       \* the lines the data provider has not handed out yet
    dp_data,        \* self._data: CPU model -> nested dicts, in insertion order
    dp_pc,          \* "reading" | "returned" | "raised"
    dp_err,         \* exception parse raised, "none" otherwise
    dp_out,         \* the list parse returned
    dp_calls        \* history: the calculate_baseline calls, <<key path, data>>

varsRead == <<rv_numjobs, rv_mode, rv_meas, rv_files, rv_pc, rv_err, rv_values, rv_calls>>

varsGet == <<cfg_cpus, host_cpu, bp_baselines, bp_pc, get_args, get_ret, get_err>>

varsPipe == <<pc, sampler, fio, cpu_load, vcpus_count, cur_mode, runs, guest, host,
              result, exc, cons_stat, cons_data, last_run, had_leftover>>

varsParse == <<dp_input, dp_lines, dp_data, dp_pc, dp_err, dp_out, dp_calls>>

vars == <<varsRead, varsGet, varsPipe, varsParse>>

\* Python values that are compared across types are tagged records.
NoneV == [kind |-> "none"]
Num(n) == [kind |-> "num", n |-> n]
Dict(f) == [kind |-> "dict", items |-> f]
EmptyDict == Dict(<<>>)
Str(x) == [kind |-> "str", s |-> x]
List(x) == [kind |-> "list", v |-> x]

-----------------------------------------------------------------------------
(* Bounds of the model.                                                    *)

\* Largest number of run_fio invocations in one behaviour.
MaxRuns == 3
\* CONFIG["time"]: the number of samples expected of every sampled thread.
Time == 2
\* Largest number of historical records fed to the parser.
MaxRecords == 2
\* Largest worker count (numjobs) tried.
MaxJobs == 2
\* Largest total number of log lines over all worker logs of one directory.
MaxTotalLines == 3

-----------------------------------------------------------------------------
(* Python built-ins used by the code.                                      *)

\* str.endswith
EndsWith(s, suffix) ==
    /\ Len(s) >= Len(suffix)
    /\ SubSeq(s, Len(s) - Len(suffix) + 1, Len(s)) = suffix

RECURSIVE SumSeq(_)
\* sum(list)
SumSeq(s) == IF s = <<>> THEN 0 ELSE s[1] + SumSeq(Tail(s))

RECURSIVE SplitAcc(_, _, _, _, _)
SplitAcc(s, sep, i, cur, acc) ==
    IF i > Len(s) THEN Append(acc, cur)
    ELSE IF SubSeq(s, i, i) = sep
    THEN SplitAcc(s, sep, i + 1, "", Append(acc, cur))
    ELSE SplitAcc(s, sep, i + 1, cur \o SubSeq(s, i, i), acc)

\* str.split(sep) for a one-character separator
StrSplit(s, sep) == SplitAcc(s, sep, 1, "", <<>>)

\* bool(value): None, an empty dict and the number 0 are false
Truthy(v) ==
    CASE v.kind = "none" -> FALSE
      [] v.kind = "dict" -> DOMAIN v.items # {}
      [] v.kind = "num"  -> v.n # 0

\* dict.get(key) of a tagged dict: None when the key is absent
DictGetOrNone(d, k) == IF k \in DOMAIN d.items THEN d.items[k] ELSE NoneV

\* dict, in insertion order: `k in d`, d[k], d[k] = v
DictHas(d, k) == \E i \in 1..Len(d) : d[i][1] = k
DictGet(d, k) == d[CHOOSE i \in 1..Len(d) : d[i][1] = k][2]
DictSet(d, k, v) ==
    IF DictHas(d, k)
    THEN [i \in 1..Len(d) |-> IF d[i][1] = k THEN <<k, v>> ELSE d[i]]
    ELSE Append(d, <<k, v>>)

-----------------------------------------------------------------------------
(* The parts of the state a specification does not drive stay as here.     *)

ReadIdle ==
    /\ rv_numjobs = 0 /\ rv_mode = "" /\ rv_meas = "" /\ rv_files = <<>>
    /\ rv_pc = "idle" /\ rv_err = "none" /\ rv_values = <<>> /\ rv_calls = <<>>

GetIdle ==
    /\ cfg_cpus = <<>> /\ host_cpu = "" /\ bp_baselines = NoneV
    /\ bp_pc = "idle" /\ get_args = <<>> /\ get_ret = NoneV /\ get_err = "none"

PipeIdle ==
    /\ pc = "off" /\ sampler = "none" /\ fio = "none" /\ cpu_load = <<>>
    /\ vcpus_count = 0 /\ cur_mode = "" /\ runs = 0 /\ guest = <<>> /\ host = <<>>
    /\ result = NoneV /\ exc = "none" /\ cons_stat = <<>> /\ cons_data = <<>>
    /\ last_run = <<>> /\ had_leftover = FALSE

ParseIdle ==
    /\ dp_input = <<>> /\ dp_lines = <<>> /\ dp_data = <<>> /\ dp_pc = "idle"
    /\ dp_err = "none" /\ dp_out = <<>> /\ dp_calls = <<>>

-----------------------------------------------------------------------------
(* BlockBaselinesProvider.                                                 *)

RECURSIVE QueryPath(_, _)
\* DictQuery.get(keys_path) after the path is split on "/": the value at the
\* end of the path, None as soon as a level is absent.
QueryPath(node, keys) ==
    IF keys = <<>> THEN node
    ELSE IF node.kind # "dict" \/ keys[1] \notin DOMAIN node.items THEN NoneV
    ELSE QueryPath(node.items[keys[1]], Tail(keys))

DictQueryGet(inner, keys_path) == QueryPath(inner, StrSplit(keys_path, "/"))

\* self._tag.format(ms_name, st_name), with
\* self._tag = "baselines/{}/" + env_id + "/{}/" + fio_id
TagFormat(env_id, fio_id, ms_name, st_name) ==
    "baselines/" \o ms_name \o "/" \o env_id \o "/" \o st_name \o "/" \o fio_id

\* BlockBaselinesProvider.get: [err, ret]
BaselineGet(inner, env_id, fio_id, ms_name, st_name) ==
    LET key      == TagFormat(env_id, fio_id, ms_name, st_name)
        baseline == DictQueryGet(inner, key)
    IN IF Truthy(baseline)
       THEN LET target           == DictGetOrNone(baseline, "target")
                delta_percentage == DictGetOrNone(baseline, "delta_percentage")
            IN IF target.kind # "num" \/ delta_percentage.kind # "num"
               THEN [err |-> "TypeError", ret |-> NoneV]
               ELSE [err |-> "none",
                     ret |-> Dict(("target" :> target) @@
                                  ("delta" :> Num((delta_percentage.n * target.n) \div 100)))]
       ELSE [err |-> "none", ret |-> NoneV]

-----------------------------------------------------------------------------
(* SpecGet: the provider built over, and queried on, bounded documents.    *)

EnvId == "k/r"
FioId == "randread-bs4096-1vcpu"
CpuModels == {"Intel", "AMD"}
MsNames == {"iops_read", "bw_read"}
StNames == {"Avg", "Max"}
\* Multiples of 100, so that delta_percentage * target / 100 is exact.
Targets == {-1000, 0, 1000}
DeltaPercentages == {-5, 0, 5}

\* Every leaf entry: both fields, one of them, or none.
Leaves ==
    {EmptyDict}
    \cup {Dict("target" :> Num(t)) : t \in Targets}
    \cup {Dict("delta_percentage" :> Num(d)) : d \in DeltaPercentages}
    \cup {Dict(("target" :> Num(t)) @@ ("delta_percentage" :> Num(d))) :
             t \in Targets, d \in DeltaPercentages}

\* The path of the one entry the documents hold.
DocPath == <<"baselines", "iops_read", "k", "r", "Avg", FioId>>

RECURSIVE Nest(_, _)
\* The dict holding `leaf` under the nested keys.
Nest(keys, leaf) ==
    IF keys = <<>> THEN leaf ELSE Dict(keys[1] :> Nest(Tail(keys), leaf))

\* The documents: the path cut after its first d levels (an empty dict is
\* where the next level would be), or the whole path and a leaf.
Documents ==
    {Nest(SubSeq(DocPath, 1, d), EmptyDict) : d \in 0..(Len(DocPath) - 1)}
    \cup {Nest(DocPath, leaf) : leaf \in Leaves}

InitGet ==
    /\ ReadIdle /\ PipeIdle /\ ParseIdle
    /\ host_cpu \in CpuModels
    /\ \E doc \in Documents :
          cfg_cpus = <<Dict(("model" :> Str("Intel")) @@ doc.items)>>
    /\ bp_baselines = NoneV
    /\ bp_pc = "new"
    /\ get_args = <<>>
    /\ get_ret = NoneV
    /\ get_err = "none"

\* BlockBaselinesProvider.__init__
ProviderInit ==
    /\ bp_pc = "new"
    /\ LET baselines == SelectSeq(cfg_cpus,
                                  LAMBDA cpu_baseline : cpu_baseline.items["model"].s = host_cpu)
       IN bp_baselines' = IF Len(baselines) > 0 THEN baselines[1] ELSE EmptyDict
    /\ bp_pc' = "built"
    /\ UNCHANGED <<cfg_cpus, host_cpu, get_args, get_ret, get_err>>
    /\ UNCHANGED <<varsRead, varsPipe, varsParse>>

\* BlockBaselinesProvider.get(ms_name, st_name)
ProviderGet ==
    /\ bp_pc = "built"
    /\ \E ms_name \in MsNames, st_name \in StNames :
          LET r == BaselineGet(bp_baselines, EnvId, FioId, ms_name, st_name)
          IN /\ get_args' = <<ms_name, st_name>>
             /\ get_ret' = r.ret
             /\ get_err' = r.err
             /\ bp_pc' = IF r.err = "none" THEN "returned" ELSE "raised"
    /\ UNCHANGED <<cfg_cpus, host_cpu, bp_baselines>>
    /\ UNCHANGED <<varsRead, varsPipe, varsParse>>

NextGet == ProviderInit \/ ProviderGet

SpecGet == InitGet /\ [][NextGet]_vars

-----------------------------------------------------------------------------
(* Claims about BlockBaselinesProvider.get (checked under SpecGet).        *)

\* The entry of the host's CPU model at the path of the last get, level by
\* level: "absent" when a level is missing.
GetLeaf ==
    LET path == <<"baselines", get_args[1], "k", "r", get_args[2], FioId>>
        Walk[i \in 0..Len(path)] ==
            IF i = 0
            THEN (IF host_cpu = "Intel" THEN cfg_cpus[1] ELSE NoneV)
            ELSE IF Walk[i - 1].kind = "dict" /\ path[i] \in DOMAIN Walk[i - 1].items
                 THEN Walk[i - 1].items[path[i]] ELSE NoneV
    IN Walk[Len(path)]

GetEntryComplete ==
    /\ GetLeaf.kind = "dict"
    /\ {"target", "delta_percentage"} \subseteq DOMAIN GetLeaf.items

\* C2 (as claimed): get returns None and does not raise whenever a level of
\* the hierarchy is absent or the leaf entry lacks target or delta_percentage.
C2_MissingYieldsNone ==
    (bp_pc \in {"returned", "raised"} /\ ~GetEntryComplete) =>
        (get_err = "none" /\ get_ret = NoneV)

\* C9 (as claimed): every entry get returns has delta >= 0.
C9_DeltaNonNegative ==
    (bp_pc = "returned" /\ get_ret.kind = "dict") => get_ret.items["delta"].n >= 0

-----------------------------------------------------------------------------
(* DataDirection and read_values.                                          *)

DEBUG == FALSE

\* A mutant of DataDirectionValid: the enum also accepts the code 3.
DataDirectionValid_Lax(code) == code \in {0, 1, 2, 3}

\* DataDirection(code): the Enum constructor raises ValueError for a value
\* that is no member (READ = 0, WRITE = 1, TRIM = 2).
DataDirectionValid(code) == code \in {0, 1, 2}

\* DataDirection.__str__
DataDirectionStr(code) ==
    IF code = 0 THEN "read"
    ELSE IF code = 1 THEN "write"
    ELSE IF code = 2 THEN "trim"
    ELSE ""

\* direction_count of read_values
DirectionCount(mode) ==
    IF EndsWith(mode, "readwrite") \/ EndsWith(mode, "rw") THEN 2 ELSE 1

\* The name of a worker's log inside the results directory,
\* f"{mode}{bs}_{measurement}.{job_id + 1}.log", kept as its three fields.
LogName(modebs, measurement, job) == <<modebs, measurement, job>>

\* A log line "timestamp, value, direction, block size" after split(",") and
\* int(field.strip()): the sequence of its four integers; data[1] and data[2]
\* of the code are fields 2 and 3 here (TLA+ counts from 1).
LineValue(data) == data[2]
LineDirection(data) == data[3]

\* values[measurement_id][value_idx].append(value), creating the dict of the
\* identifier and the list of the index when absent.
AppendValue(values, measurement_id, value_idx, value) ==
    LET byidx == IF DictHas(values, measurement_id)
                 THEN DictGet(values, measurement_id) ELSE <<>>
        old   == IF DictHas(byidx, value_idx)
                 THEN DictGet(byidx, value_idx) ELSE <<>>
    IN DictSet(values, measurement_id,
               DictSet(byidx, value_idx, Append(old, value)))

RECURSIVE DirectionLoop(_, _, _, _, _, _)
\* for direction in range(direction_count): ... (one pass of the inner loop
\* from `direction` on); st = [err, values].
DirectionLoop(st, lines, idx, direction, direction_count, measurement) ==
    IF st.err # "none" \/ direction >= direction_count THEN st
    ELSE IF idx + direction >= Len(lines)
    THEN [st EXCEPT !.err = "IndexError"]
    ELSE LET data == lines[idx + direction + 1]
         IN IF ~DataDirectionValid(LineDirection(data))
            THEN [st EXCEPT !.err = "ValueError"]
            ELSE LET measurement_id ==
                         measurement \o "_" \o DataDirectionStr(LineDirection(data))
                     value_idx == idx \div direction_count
                 IN DirectionLoop(
                        [st EXCEPT !.values =
                            AppendValue(@, measurement_id, value_idx, LineValue(data))],
                        lines, idx, direction + 1, direction_count, measurement)

RECURSIVE IdxLoop(_, _, _, _, _)
\* for idx in range(0, len(lines), direction_count): ...
IdxLoop(st, lines, idx, direction_count, measurement) ==
    IF st.err # "none" \/ idx >= Len(lines) THEN st
    ELSE IdxLoop(DirectionLoop(st, lines, idx, 0, direction_count, measurement),
                 lines, idx + direction_count, direction_count, measurement)

RECURSIVE JobLoop(_, _, _, _, _, _, _)
\* for job_id in range(numjobs): open the worker's log and read its lines.
JobLoop(st, files, job_id, numjobs, mode, modebs, measurement) ==
    IF st.err # "none" \/ job_id >= numjobs THEN st
    ELSE LET file_path == LogName(modebs, measurement, job_id + 1)
         IN IF file_path \notin DOMAIN files
            THEN [st EXCEPT !.err = "FileNotFoundError"]
            ELSE JobLoop(IdxLoop(st, files[file_path], 0, DirectionCount(mode), measurement),
                         files, job_id + 1, numjobs, mode, modebs, measurement)

RECURSIVE EmitIdx(_, _, _)
\* for idx in values[measurement_id]: skip the index unless numjobs values
\* were collected, else cons.consume_data(measurement_id, sum(...)).
EmitIdx(measurement_id, byidx, numjobs) ==
    IF byidx = <<>> THEN <<>>
    ELSE LET idx  == byidx[1][1]
             vals == byidx[1][2]
             rest == EmitIdx(measurement_id, Tail(byidx), numjobs)
         IN IF Len(vals) # numjobs THEN rest
            ELSE <<<<measurement_id, SumSeq(vals), idx>>>> \o rest

RECURSIVE EmitAll(_, _)
\* for measurement_id in values: ...
EmitAll(values, numjobs) ==
    IF values = <<>> THEN <<>>
    ELSE EmitIdx(values[1][1], values[1][2], numjobs) \o EmitAll(Tail(values), numjobs)

\* read_values(cons, numjobs, env_id, mode, bs, measurement) on the directory
\* content `files`: the exception raised ("none" when it returns), the dict
\* `values` and the consume_data calls made (none when the first loop raises).
ReadValues(files, numjobs, mode, modebs, measurement) ==
    LET st == JobLoop([err |-> "none", values |-> <<>>], files, 0, numjobs,
                      mode, modebs, measurement)
    IN [err    |-> st.err,
        values |-> st.values,
        calls  |-> IF st.err = "none" THEN EmitAll(st.values, numjobs) ELSE <<>>]

-----------------------------------------------------------------------------
(* SpecRead: read_values on every bounded results directory.               *)

Modes == {"randread", "randrw"}
BlockSize == "4096"
Measurements == {"iops", "bw"}
DirectionCodes == {0, 1, 2, 3}

\* The lines of worker `job`'s log with direction codes `dirs`: the value of
\* line p is 10 * job + p, so a sum tells which lines went into it.
LogLines(job, dirs) == [p \in 1..Len(dirs) |-> <<1000 * p, 10 * job + p, dirs[p], 4096>>]

SeqsUpTo(S, n) == UNION {[1..k -> S] : k \in 0..n}

\* The worker logs of a directory: a sequence of at most MaxTotalLines
\* direction codes, cut into one consecutive piece per worker.
InitRead ==
    /\ GetIdle /\ PipeIdle /\ ParseIdle
    /\ rv_numjobs \in 1..MaxJobs
    /\ rv_mode \in Modes
    /\ rv_meas \in Measurements
    /\ \E all \in SeqsUpTo(DirectionCodes, MaxTotalLines) :
       \E cut \in [0..rv_numjobs -> 0..Len(all)] :
          /\ cut[0] = 0 /\ cut[rv_numjobs] = Len(all)
          /\ \A j \in 1..rv_numjobs : cut[j - 1] <= cut[j]
          /\ rv_files = [n \in {LogName(rv_mode \o BlockSize, rv_meas, j) : j \in 1..rv_numjobs}
                            |-> LogLines(n[3], SubSeq(all, cut[n[3] - 1] + 1, cut[n[3]]))]
    /\ rv_pc = "ready"
    /\ rv_err = "none"
    /\ rv_values = <<>>
    /\ rv_calls = <<>>

CallReadValues ==
    /\ rv_pc = "ready"
    /\ LET r == ReadValues(rv_files, rv_numjobs, rv_mode, rv_mode \o BlockSize, rv_meas)
       IN /\ rv_err' = r.err
          /\ rv_values' = r.values
          /\ rv_calls' = r.calls
          /\ rv_pc' = IF r.err = "none" THEN "returned" ELSE "raised"
    /\ UNCHANGED <<rv_numjobs, rv_mode, rv_meas, rv_files>>
    /\ UNCHANGED <<varsGet, varsPipe, varsParse>>

NextRead == CallReadValues

SpecRead == InitRead /\ [][NextRead]_vars

-----------------------------------------------------------------------------
(* Claims about read_values (checked under SpecRead).                      *)

\* The telemetry format's direction codes and the identifier suffix of each.
FormatDirectionName(code) ==
    CASE code = 0 -> "read" [] code = 1 -> "write" [] code = 2 -> "trim"

RvDirectionCount == IF rv_mode = "randrw" THEN 2 ELSE 1
RvLines(j) == rv_files[LogName(rv_mode \o BlockSize, rv_meas, j)]
RvIds == {rv_meas \o "_" \o d : d \in {"read", "write", "trim"}}

\* The lines of worker j's log that report a value for identifier m at index i.
RvPositions(j, m, i) ==
    {p \in 1..Len(RvLines(j)) :
        /\ (p - 1) \div RvDirectionCount = i
        /\ RvLines(j)[p][3] \in {0, 1, 2}
        /\ rv_meas \o "_" \o FormatDirectionName(RvLines(j)[p][3]) = m}

RECURSIVE SumOver(_, _, _)
SumOver(S, j, acc) ==
    IF S = {} THEN acc
    ELSE LET p == CHOOSE q \in S : TRUE
         IN SumOver(S \ {p}, j, acc + RvLines(j)[p][2])

RECURSIVE SumWorkers(_, _, _)
SumWorkers(j, m, i) ==
    IF j = 0 THEN 0 ELSE SumOver(RvPositions(j, m, i), j, 0) + SumWorkers(j - 1, m, i)

RvAllReported(m, i) == \A j \in 1..rv_numjobs : RvPositions(j, m, i) # {}
RvCallsFor(m, i) == {k \in 1..Len(rv_calls) : rv_calls[k][1] = m /\ rv_calls[k][3] = i}

\* C1 (as claimed): when read_values returns, consume_data(m, v) was called for
\* index i exactly when every one of the numjobs workers reported a value for
\* m at i, and v is the sum of the workers' values there.
C1_AlignedSumIffAllWorkers ==
    rv_pc = "returned" =>
        \A m \in RvIds, i \in 0..MaxTotalLines :
            /\ RvAllReported(m, i) <=> RvCallsFor(m, i) # {}
            /\ \A k \in RvCallsFor(m, i) : rv_calls[k][2] = SumWorkers(rv_numjobs, m, i)

RvInvalidLine ==
    \E j \in 1..rv_numjobs : \E p \in 1..Len(RvLines(j)) : RvLines(j)[p][3] \notin {0, 1, 2}

\* The values read_values filed under identifier m at index i.
RvFiled(m, i) ==
    IF DictHas(rv_values, m) /\ DictHas(DictGet(rv_values, m), i)
    THEN DictGet(DictGet(rv_values, m), i) ELSE <<>>

\* C8: a direction code outside {0, 1, 2} on any line of a worker's log makes
\* read_values raise without a single consume_data call; every value that
\* read_values files is filed under <measurement>_read, _write or _trim
\* according to its line's code, and when read_values returns every line of
\* every worker has been filed so.
C8_InvalidCodeIsHardError ==
    rv_pc # "ready" =>
        /\ RvInvalidLine => rv_pc = "raised" /\ rv_calls = <<>>
        /\ \A e \in 1..Len(rv_values) : rv_values[e][1] \in RvIds
        /\ \A m \in RvIds, i \in 0..MaxTotalLines :
              /\ \A k \in 1..Len(RvFiled(m, i)) :
                    \E j \in 1..rv_numjobs : \E p \in RvPositions(j, m, i) :
                        RvLines(j)[p][2] = RvFiled(m, i)[k]
              /\ rv_pc = "returned" =>
                    \A j \in 1..rv_numjobs : \A p \in RvPositions(j, m, i) :
                        \E k \in 1..Len(RvFiled(m, i)) :
                            RvFiled(m, i)[k] = RvLines(j)[p][2]

\* A log whose second line carries an invalid code, after a first line that
\* was filed: read_values raised ValueError part-way through.
C8_Witness ==
    /\ rv_pc = "raised" /\ rv_err = "ValueError"
    /\ rv_values # <<>>
    /\ RvInvalidLine

-----------------------------------------------------------------------------
(* run_fio and consume_fio_output.                                         *)

CPU_UTILIZATION_VMM == "cpu_utilization_vmm"
CPU_UTILIZATION_VCPUS_TOTAL == "cpu_utilization_vcpus_total"

\* The microvm artifacts of the test: "2vcpu_1024mb" and "1vcpu_1024mb".
VcpuCounts == {2, 1}

\* CONFIG["load_factor"]: fio runs load_factor * vcpus_count jobs.
LoadFactor == 1

NoDir == [exists |-> FALSE, files |-> <<>>]

\* A mutant of CleanResultsDir: a directory that exists is kept as it is.
CleanResultsDir_KeepExisting(h, modebs) ==
    IF h[modebs].exists THEN h ELSE [h EXCEPT ![modebs] = [exists |-> TRUE, files |-> <<>>]]

\* if os.path.isdir(dir): shutil.rmtree(dir); os.makedirs(dir)
CleanResultsDir(h, modebs) ==
    LET removed == IF h[modebs].exists THEN [h EXCEPT ![modebs] = NoDir] ELSE h
    IN [removed EXCEPT ![modebs] = [exists |-> TRUE, files |-> <<>>]]

\* ssh_conn.scp_get_file("*.log", dir): every log of the guest is copied into
\* the directory, over a file of the same name; `run` notes the invocation.
ScpGetLogs(g, dir, run) ==
    [exists |-> TRUE,
     files  |-> [n \in DOMAIN g \cup DOMAIN dir.files |->
                    IF n \in DOMAIN g
                    THEN [lines |-> g[n].lines, run |-> g[n].run, fetch |-> run]
                    ELSE dir.files[n]]]

\* shutil.rmtree(dir) of consume_fio_output
RmTree(h, modebs) == [h EXCEPT ![modebs] = NoDir]

\* What open(path).readlines() sees in a directory: name -> lines.
DirLines(dir) == [n \in DOMAIN dir.files |-> dir.files[n].lines]

\* The direction codes of the lines fio logs for one job: a line per
\* direction of the mode; `bad` puts an unknown code on the last line.
FioDirections(mode, bad) ==
    IF DirectionCount(mode) = 2
    THEN (IF bad THEN <<0, 3>> ELSE <<0, 1>>)
    ELSE (IF bad THEN <<3>> ELSE <<0>>)

\* The logs fio writes (--write_iops_log, --write_bw_log): one per job and
\* measurement; `quality` names the measurement whose logs are malformed.
FioLogs(mode, numjobs, quality, run) ==
    [n \in {LogName(mode \o BlockSize, ms, j) : ms \in Measurements, j \in 1..numjobs} |->
        [lines |-> LogLines(n[3], FioDirections(mode, quality = n[2])), run |-> run]]

\* A mutant of ExecutorShutdownDone: leaving the `with` block does not wait.
ExecutorShutdownDone_NoWait(task) == TRUE

\* ThreadPoolExecutor.__exit__ is shutdown(wait=True): the `with` block is
\* left only when the submitted task is no longer running.
ExecutorShutdownDone(task) == task # "running"

VcpuTag(vcpu) == "fc_vcpu " \o ToString(vcpu)

\* assert tag in cpu_load and len(cpu_load[tag]) == 1
\* data = list(cpu_load[tag].values())[0]; assert len(data) == CONFIG["time"]
SeriesOk(load, tag) ==
    /\ tag \in DOMAIN load
    /\ Len(load[tag]) = 1
    /\ Len(load[tag][1]) = Time

\* A mutant of VcpuSeriesOk: the vCPU series' length is not checked.
VcpuSeriesOk_NoLength(load, tag) ==
    /\ tag \in DOMAIN load
    /\ Len(load[tag]) = 1

\* The two assertions of the vCPU loop.
VcpuSeriesOk(load, tag) == SeriesOk(load, tag)

Average(data) == SumSeq(data) \div Len(data)

RECURSIVE VcpuLoop(_, _, _, _)
\* for vcpu in range(basevm.vcpus_count): ...; [err, vcpus_util]
VcpuLoop(load, vcpu, vcpus, vcpus_util) ==
    IF vcpu >= vcpus THEN [err |-> "none", vcpus_util |-> vcpus_util]
    ELSE IF ~VcpuSeriesOk(load, VcpuTag(vcpu))
    THEN [err |-> "AssertionError", vcpus_util |-> vcpus_util]
    ELSE VcpuLoop(load, vcpu + 1, vcpus, vcpus_util + Average(load[VcpuTag(vcpu)][1]))

\* Lines 127-154 of run_fio: [err, result]
CpuLoadResult(load, vcpus) ==
    IF ~SeriesOk(load, "firecracker")
    THEN [err |-> "AssertionError", result |-> NoneV]
    ELSE LET loop == VcpuLoop(load, 0, vcpus, 0)
         IN IF loop.err # "none"
            THEN [err |-> loop.err, result |-> NoneV]
            ELSE [err |-> "none",
                  result |-> Dict((CPU_UTILIZATION_VMM :> Num(Average(load["firecracker"][1])))
                                  @@ (CPU_UTILIZATION_VCPUS_TOTAL :> Num(loop.vcpus_util)))]

-----------------------------------------------------------------------------
(* SpecPipe: pipes (run_fio, then consume_fio_output) one after another.   *)

ModeBsSet == {m \o BlockSize : m \in Modes}
CurDir == cur_mode \o BlockSize

Series(n) == [i \in 1..n |-> 50]

\* The threads get_cpu_percent is expected to report for a microvm.
ExpectedTags(vcpus) == {"firecracker"} \cup {VcpuTag(v) : v \in 0..(vcpus - 1)}

GoodLoad(vcpus) == [t \in ExpectedTags(vcpus) \cup {"fc_api"} |-> <<Series(Time)>>]

\* What get_cpu_percent may return: the expected report, or the report with
\* one thread missing, without a series, with two series, or with a series
\* one sample short or long.
CpuLoads(vcpus) ==
    {GoodLoad(vcpus)}
    \cup {[t \in DOMAIN GoodLoad(vcpus) \ {x} |-> GoodLoad(vcpus)[t]] : x \in ExpectedTags(vcpus)}
    \cup {[GoodLoad(vcpus) EXCEPT ![x] = s] :
             x \in ExpectedTags(vcpus),
             s \in {<<>>, <<Series(Time), Series(Time)>>,
                    <<Series(Time - 1)>>, <<Series(Time + 1)>>}}

InitPipe ==
    /\ ReadIdle /\ GetIdle /\ ParseIdle
    /\ pc = "idle" /\ sampler = "none" /\ fio = "none" /\ cpu_load = <<>>
    /\ vcpus_count = 0 /\ cur_mode = "" /\ runs = 0 /\ guest = <<>>
    /\ host = [d \in ModeBsSet |-> NoDir]
    /\ result = NoneV /\ exc = "none" /\ cons_stat = <<>> /\ cons_data = <<>>
    /\ last_run = [d \in ModeBsSet |-> 0]
    /\ had_leftover = FALSE

PipeFresh ==
    /\ sampler' = "none" /\ fio' = "none" /\ cpu_load' = <<>>
    /\ result' = NoneV /\ exc' = "none" /\ cons_stat' = <<>> /\ cons_data' = <<>>
    /\ had_leftover' = FALSE

\* fio_workload up to basevm.start(): a fresh microvm, after the previous
\* exercise ended (its last pipe consumed, or a pipe failed).
BootVm ==
    /\ pc \in {"idle", "rf_raised", "cf_raised", "cf_done"}
    /\ runs < MaxRuns
    /\ vcpus_count' \in VcpuCounts
    /\ guest' = <<>>
    /\ pc' = "idle"
    /\ cur_mode' = ""
    /\ PipeFresh
    /\ UNCHANGED <<runs, host, last_run>>
    /\ UNCHANGED <<varsRead, varsGet, varsParse>>

\* The next pipe of the exercise enters run_fio.
StartRunFio ==
    /\ pc \in {"idle", "cf_done"}
    /\ vcpus_count # 0
    /\ runs < MaxRuns
    /\ \E mode \in Modes :
          /\ cur_mode' = mode
          /\ last_run' = [last_run EXCEPT ![mode \o BlockSize] = runs + 1]
    /\ runs' = runs + 1
    /\ pc' = "rf_prepare"
    /\ PipeFresh
    /\ UNCHANGED <<vcpus_count, guest, host>>
    /\ UNCHANGED <<varsRead, varsGet, varsParse>>

Raise(e, at) == exc' = e /\ pc' = at

\* Lines 92-102: the scheduler and drop_caches commands and their asserts.
RfPrepare ==
    /\ pc = "rf_prepare"
    /\ \/ pc' = "rf_submit" /\ exc' = exc
       \/ Raise("AssertionError", "rf_raised")
    /\ UNCHANGED <<sampler, fio, cpu_load, vcpus_count, cur_mode, runs, guest, host,
                   result, cons_stat, cons_data, last_run, had_leftover>>
    /\ UNCHANGED <<varsRead, varsGet, varsParse>>

\* Lines 105-109: executor.submit(get_cpu_percent, ...)
RfSubmit ==
    /\ pc = "rf_submit"
    /\ sampler' = "running"
    /\ pc' = "rf_exec"
    /\ UNCHANGED <<fio, cpu_load, vcpus_count, cur_mode, runs, guest, host,
                   result, exc, cons_stat, cons_data, last_run, had_leftover>>
    /\ UNCHANGED <<varsRead, varsGet, varsParse>>

\* Line 112: ssh_conn.execute_command(cmd) starts fio in the guest.
RfExec ==
    /\ pc = "rf_exec"
    /\ fio' = "running"
    /\ pc' = "rf_fio"
    /\ UNCHANGED <<sampler, cpu_load, vcpus_count, cur_mode, runs, guest, host,
                   result, exc, cons_stat, cons_data, last_run, had_leftover>>
    /\ UNCHANGED <<varsRead, varsGet, varsParse>>

\* Lines 112-114: fio ends; its logs are in the guest when it succeeded.
RfFioDone ==
    /\ pc = "rf_fio"
    /\ \/ \E quality \in {"none"} \cup Measurements :
             /\ guest' = FioLogs(cur_mode, LoadFactor * vcpus_count, quality, runs) @@ guest
             /\ fio' = "ok"
             /\ pc' = "rf_clean" /\ exc' = exc
       \/ /\ fio' = "failed"
          /\ Raise("AssertionError", "rf_exit")
          /\ guest' = guest
    /\ UNCHANGED <<sampler, cpu_load, vcpus_count, cur_mode, runs, host,
                   result, cons_stat, cons_data, last_run, had_leftover>>
    /\ UNCHANGED <<varsRead, varsGet, varsParse>>

\* Lines 116-119
RfCleanDir ==
    /\ pc = "rf_clean"
    /\ host' = CleanResultsDir(host, CurDir)
    /\ had_leftover' = host[CurDir].exists
    /\ pc' = "rf_scp"
    /\ UNCHANGED <<sampler, fio, cpu_load, vcpus_count, cur_mode, runs, guest,
                   result, exc, cons_stat, cons_data, last_run>>
    /\ UNCHANGED <<varsRead, varsGet, varsParse>>

\* Line 121
RfScp ==
    /\ pc = "rf_scp"
    /\ \/ /\ host' = [host EXCEPT ![CurDir] = ScpGetLogs(guest, @, runs)]
          /\ pc' = "rf_rm" /\ exc' = exc
       \/ Raise("ConnectionError", "rf_exit") /\ host' = host
    /\ UNCHANGED <<sampler, fio, cpu_load, vcpus_count, cur_mode, runs, guest,
                   result, cons_stat, cons_data, last_run, had_leftover>>
    /\ UNCHANGED <<varsRead, varsGet, varsParse>>

\* Lines 122-123
RfRmLogs ==
    /\ pc = "rf_rm"
    /\ \/ guest' = <<>> /\ pc' = "rf_result" /\ exc' = exc
       \/ Raise("AssertionError", "rf_exit") /\ guest' = guest
    /\ UNCHANGED <<sampler, fio, cpu_load, vcpus_count, cur_mode, runs, host,
                   result, cons_stat, cons_data, last_run, had_leftover>>
    /\ UNCHANGED <<varsRead, varsGet, varsParse>>

\* Line 126: cpu_load_future.result() blocks until the task ended and raises
\* what the task raised.
RfResult ==
    /\ pc = "rf_result"
    /\ sampler # "running"
    /\ IF sampler = "failed"
       THEN Raise("SamplerError", "rf_exit")
       ELSE pc' = "rf_checks" /\ exc' = exc
    /\ UNCHANGED <<sampler, fio, cpu_load, vcpus_count, cur_mode, runs, guest, host,
                   result, cons_stat, cons_data, last_run, had_leftover>>
    /\ UNCHANGED <<varsRead, varsGet, varsParse>>

\* Lines 127-154
RfChecks ==
    /\ pc = "rf_checks"
    /\ LET r == CpuLoadResult(cpu_load, vcpus_count)
       IN /\ result' = r.result
          /\ exc' = r.err
          /\ pc' = "rf_exit"
    /\ UNCHANGED <<sampler, fio, cpu_load, vcpus_count, cur_mode, runs, guest, host,
                   cons_stat, cons_data, last_run, had_leftover>>
    /\ UNCHANGED <<varsRead, varsGet, varsParse>>

\* The end of the `with` block (line 105), by `return result` or by the
\* exception in flight.
RfExitWith ==
    /\ pc = "rf_exit"
    /\ ExecutorShutdownDone(sampler)
    /\ pc' = IF exc = "none" THEN "rf_returned" ELSE "rf_raised"
    /\ UNCHANGED <<sampler, fio, cpu_load, vcpus_count, cur_mode, runs, guest, host,
                   result, exc, cons_stat, cons_data, last_run, had_leftover>>
    /\ UNCHANGED <<varsRead, varsGet, varsParse>>

\* get_cpu_percent returns in its thread.
SamplerDone ==
    /\ sampler = "running"
    /\ cpu_load' \in CpuLoads(vcpus_count)
    /\ sampler' = "done"
    /\ UNCHANGED <<pc, fio, vcpus_count, cur_mode, runs, guest, host,
                   result, exc, cons_stat, cons_data, last_run, had_leftover>>
    /\ UNCHANGED <<varsRead, varsGet, varsParse>>

\* get_cpu_percent raises in its thread.
SamplerFail ==
    /\ sampler = "running"
    /\ sampler' = "failed"
    /\ UNCHANGED <<pc, fio, cpu_load, vcpus_count, cur_mode, runs, guest, host,
                   result, exc, cons_stat, cons_data, last_run, had_leftover>>
    /\ UNCHANGED <<varsRead, varsGet, varsParse>>

\* Lines 225-231 of consume_fio_output
CfStats ==
    /\ pc = "rf_returned"
    /\ cons_stat' = <<<<"value", CPU_UTILIZATION_VMM, result.items[CPU_UTILIZATION_VMM]>>,
                      <<"value", CPU_UTILIZATION_VCPUS_TOTAL,
                        result.items[CPU_UTILIZATION_VCPUS_TOTAL]>>>>
    /\ cpu_load' = <<>>
    /\ pc' = "cf_iops"
    /\ UNCHANGED <<sampler, fio, vcpus_count, cur_mode, runs, guest, host,
                   result, exc, cons_data, last_run, had_leftover>>
    /\ UNCHANGED <<varsRead, varsGet, varsParse>>

\* read_values(cons, numjobs, env_id, mode, bs, measurement) inside
\* consume_fio_output, with numjobs = basevm.vcpus_count.
CfRead(measurement, next) ==
    LET r == ReadValues(DirLines(host[CurDir]), vcpus_count, cur_mode, CurDir, measurement)
    IN /\ cons_data' = cons_data \o r.calls
       /\ IF r.err = "none" THEN pc' = next /\ exc' = exc ELSE Raise(r.err, "cf_raised")
       /\ UNCHANGED <<sampler, fio, cpu_load, vcpus_count, cur_mode, runs, guest, host,
                      result, cons_stat, last_run, had_leftover>>
       /\ UNCHANGED <<varsRead, varsGet, varsParse>>

\* Line 233
CfReadIops == pc = "cf_iops" /\ CfRead("iops", "cf_bw")

\* Line 234
CfReadBw == pc = "cf_bw" /\ CfRead("bw", "cf_rmtree")

\* Line 237
CfRmTree ==
    /\ pc = "cf_rmtree"
    /\ host' = RmTree(host, CurDir)
    /\ pc' = "cf_done"
    /\ UNCHANGED <<sampler, fio, cpu_load, vcpus_count, cur_mode, runs, guest,
                   result, exc, cons_stat, cons_data, last_run, had_leftover>>
    /\ UNCHANGED <<varsRead, varsGet, varsParse>>

NextPipe ==
    \/ BootVm \/ StartRunFio
    \/ RfPrepare \/ RfSubmit \/ RfExec \/ RfFioDone \/ RfCleanDir \/ RfScp \/ RfRmLogs
    \/ RfResult \/ RfChecks \/ RfExitWith
    \/ SamplerDone \/ SamplerFail
    \/ CfStats \/ CfReadIops \/ CfReadBw \/ CfRmTree

SpecPipe == InitPipe /\ [][NextPipe]_vars

-----------------------------------------------------------------------------
(* Claims about run_fio and consume_fio_output (checked under SpecPipe).   *)

RunFioLeft ==
    pc \in {"rf_returned", "rf_raised", "cf_iops", "cf_bw", "cf_rmtree", "cf_done", "cf_raised"}

\* C3: run_fio is left, by a return or by an exception, only when neither the
\* fio command nor the sampler task is still running, and it returns a result
\* only when both succeeded: a failure of either makes run_fio raise.
C3_JoinBeforeLeaving ==
    /\ RunFioLeft => (sampler # "running" /\ fio # "running")
    /\ pc = "rf_returned" => (sampler = "done" /\ fio = "ok" /\ exc = "none")
    /\ (pc = "rf_raised" /\ sampler # "none") => exc # "none"

\* The sampler failed while fio succeeded, and run_fio raised what the
\* sampler raised.
C3_Witness ==
    pc = "rf_raised" /\ sampler = "failed" /\ fio = "ok" /\ exc = "SamplerError"

\* C4 (as claimed): when consume_fio_output is over, by a return or by an
\* exception, the results directory of the pipe no longer exists.
C4_DirRemovedOnEveryExit ==
    pc \in {"cf_done", "cf_raised"} => ~host[CurDir].exists

\* The logs read_values opens for the pipe in progress.
ReadNames == {<<CurDir, ms, j>> : ms \in Measurements, j \in 1..vcpus_count}

\* C7: whenever read_values is about to read the results directory of a
\* pipe, every file in it was fetched by the latest run_fio invocation for
\* that directory, and every log read_values opens was written by the fio run
\* of that invocation.
C7_OnlyLatestRunLogs ==
    pc \in {"cf_iops", "cf_bw"} =>
        /\ host[CurDir].exists
        /\ \A n \in DOMAIN host[CurDir].files :
              host[CurDir].files[n].fetch = last_run[CurDir]
        /\ \A n \in ReadNames :
              /\ n \in DOMAIN host[CurDir].files
              /\ host[CurDir].files[n].run = last_run[CurDir]

\* read_values is about to read a directory that an earlier, failed pipe of
\* a microvm with more vCPUs had left behind.
C7_Witness ==
    pc = "cf_iops" /\ had_leftover /\ vcpus_count = 1 /\ last_run[CurDir] >= 2

\* The threads run_fio reads from the sampler's report.
RequiredTags ==
    {"firecracker"} \cup {"fc_vcpu " \o ToString(v) : v \in {w \in {0, 1} : w < vcpus_count}}

\* C10: run_fio returns a result only if the sampler reported exactly one
\* series for the VMM thread and for each vCPU thread, each of exactly
\* CONFIG["time"] samples.
C10_ReturnsOnlyOnFullSeries ==
    pc = "rf_returned" =>
        /\ result # NoneV
        /\ \A t \in RequiredTags :
              /\ t \in DOMAIN cpu_load
              /\ Len(cpu_load[t]) = 1
              /\ Len(cpu_load[t][1]) = Time

\* run_fio returned the averages of a two-vCPU microvm.
C10_Witness ==
    pc = "rf_returned" /\ vcpus_count = 2 /\ result # NoneV

-----------------------------------------------------------------------------
(* DataParser.                                                             *)

\* calculate_baseline is abstract: its result is the term "calculate_baseline
\* applied to data", so two results are equal only for equal data, whatever
\* policy a subclass implements.
CalculateBaseline(data) == [kind |-> "baseline", of |-> data]

\* A mutant of LeafAppend: the list of the leaf is always started afresh.
LeafAppend_Replace(leaf, st_data) == List(<<st_data>>)

\* if isinstance(data[test_config], list): data[test_config].append(st_data)
\* else: data[test_config] = [st_data]
LeafAppend(leaf, st_data) ==
    IF leaf.kind = "list" THEN List(Append(leaf.v, st_data)) ELSE List(<<st_data>>)

RECURSIVE AppendAt(_, _, _)
\* data[...][test_config] of a nested_dict: a level that is absent is made
\* on access (defaultdict); the leaf gets st_data.
AppendAt(node, path, st_data) ==
    IF path = <<>> THEN LeafAppend(node, st_data)
    ELSE LET child == IF path[1] \in DOMAIN node.items
                      THEN node.items[path[1]] ELSE EmptyDict
         IN Dict((path[1] :> AppendAt(child, Tail(path), st_data)) @@ node.items)

\* self._data[cpu_model]..., the CPU models kept in insertion order
DataAppend(data, cpu_model, path, st_data) ==
    LET root == IF DictHas(data, cpu_model) THEN DictGet(data, cpu_model) ELSE EmptyDict
    IN DictSet(data, cpu_model, AppendAt(root, path, st_data))

RECURSIVE KeyLoop(_, _, _, _, _, _)
\* for key in self._baselines_defs: ...; st = [err, data]
KeyLoop(st, defs, i, measurements, tag, cpu_model) ==
    IF st.err # "none" \/ i > Len(defs) THEN st
    ELSE LET ms_st   == StrSplit(defs[i], "/")
             ms_name == ms_st[1]
             st_name == ms_st[2]
             ms_data == DictGetOrNone(measurements.items[tag], ms_name)
         IN IF ms_data.kind = "none"
            THEN KeyLoop(st, defs, i + 1, measurements, tag, cpu_model)
            ELSE LET st_data == DictGetOrNone(ms_data, st_name)
                     parts   == StrSplit(tag, "/")
                 IN IF Len(parts) # 3
                    THEN [st EXCEPT !.err = "ValueError"]
                    ELSE KeyLoop(
                            [st EXCEPT !.data =
                                DataAppend(@, cpu_model,
                                           <<ms_name, parts[1], parts[2], st_name, parts[3]>>,
                                           st_data)],
                            defs, i + 1, measurements, tag, cpu_model)

RECURSIVE TagLoop(_, _, _, _, _)
\* for tag in measurements.keys(): ...
TagLoop(st, defs, measurements, tags, cpu_model) ==
    IF st.err # "none" \/ tags = {} THEN st
    ELSE LET tag == CHOOSE t \in tags : TRUE
         IN TagLoop(KeyLoop(st, defs, 1, measurements, tag, cpu_model),
                    defs, measurements, tags \ {tag}, cpu_model)

\* One pass of the while loop of parse over json_line = json.loads(line).
ParseRecord(data, defs, json_line) ==
    IF "results" \notin DOMAIN json_line.items
       \/ "custom" \notin DOMAIN json_line.items
       \/ "cpu_model_name" \notin DOMAIN json_line.items["custom"].items
    THEN [err |-> "KeyError", data |-> data]
    ELSE LET measurements == json_line.items["results"]
             cpu_model    == json_line.items["custom"].items["cpu_model_name"].s
         IN TagLoop([err |-> "none", data |-> data], defs, measurements,
                    DOMAIN measurements.items, cpu_model)

RECURSIVE PopulateBaselines(_)
\* _populate_baselines(key, parent) for the value parent[key]: a list becomes
\* its baseline, a dict has every child populated.
PopulateBaselines(node) ==
    IF node.kind = "list" THEN CalculateBaseline(node.v)
    ELSE Dict([k \in DOMAIN node.items |-> PopulateBaselines(node.items[k])])

RECURSIVE BaselineCalls(_, _, _)
\* The calculate_baseline calls _populate_baselines makes below `node`, whose
\* key path is `path`; `keys` are the children still to visit.
BaselineCalls(node, path, keys) ==
    IF node.kind = "list" THEN <<<<path, node.v>>>>
    ELSE IF keys = {} THEN <<>>
    ELSE LET k == CHOOSE x \in keys : TRUE
             child == node.items[k]
         IN BaselineCalls(child, Append(path, k),
                          IF child.kind = "list" THEN {} ELSE DOMAIN child.items)
            \o BaselineCalls(node, path, keys \ {k})

RECURSIVE PopulateAll(_)
\* _populate_baselines(None, self._data): for k in parent: ...
PopulateAll(data) ==
    IF data = <<>> THEN <<>>
    ELSE <<<<data[1][1], PopulateBaselines(data[1][2])>>>> \o PopulateAll(Tail(data))

RECURSIVE AllBaselineCalls(_)
AllBaselineCalls(data) ==
    IF data = <<>> THEN <<>>
    ELSE BaselineCalls(data[1][2], <<data[1][1]>>, DOMAIN data[1][2].items)
         \o AllBaselineCalls(Tail(data))

\* _format_baselines: {'model': cpu_model, **self._data[cpu_model]} for each
\* CPU model, in insertion order.
FormatBaselines(data) ==
    [i \in 1..Len(data) |-> Dict(data[i][2].items @@ ("model" :> Str(data[i][1])))]

-----------------------------------------------------------------------------
(* SpecParse: parse over every bounded sequence of historical records.     *)

BaselinesDefs == <<"iops/Avg", "bw/Avg">>
RecordValues == {1, 2}
Configs == {"c1", "c2"}

FullResults(x) ==
    Dict(("iops" :> Dict("Avg" :> Num(x))) @@ ("bw" :> Dict("Avg" :> Num(x + 10))))

Custom(c) == Dict("cpu_model_name" :> Str(c))

\* An exercise report (a JSON line) with one tag.
Record(tag, ms, custom) == Dict(("results" :> Dict(tag :> ms)) @@ ("custom" :> custom))

\* Reports with every expected key.
GoodRecords ==
    {Record("k/r/" \o c, FullResults(x), Custom(m)) :
        c \in Configs, x \in RecordValues, m \in CpuModels}
    \cup {Dict(("results" :> Dict(("k/r/c1" :> FullResults(1)) @@ ("k/r/c2" :> FullResults(2))))
               @@ ("custom" :> Custom("Intel")))}

\* Reports with something missing or malformed: a requested measurement, a
\* requested statistic, a part of the tag, "results", "custom", "cpu_model_name".
BadRecords ==
    {Record("k/r/c1", Dict("iops" :> Dict("Avg" :> Num(1))), Custom("Intel")),
     Record("k/r/c1", Dict(("iops" :> Dict("Max" :> Num(1))) @@ ("bw" :> Dict("Avg" :> Num(11)))),
            Custom("Intel")),
     Record("k/r", FullResults(1), Custom("Intel")),
     Dict("custom" :> Custom("Intel")),
     Dict("results" :> Dict("k/r/c1" :> FullResults(1))),
     Record("k/r/c1", FullResults(1), EmptyDict)}

Records == GoodRecords \cup BadRecords

InitParse ==
    /\ ReadIdle /\ GetIdle /\ PipeIdle
    /\ dp_input \in SeqsUpTo(Records, MaxRecords)
    /\ dp_lines = dp_input
    /\ dp_data = <<>>
    /\ dp_pc = "reading"
    /\ dp_err = "none"
    /\ dp_out = <<>>
    /\ dp_calls = <<>>

\* Lines 86-112: the body of the while loop for the next line.
ParseLine ==
    /\ dp_pc = "reading"
    /\ dp_lines # <<>>
    /\ LET r == ParseRecord(dp_data, BaselinesDefs, Head(dp_lines))
       IN /\ dp_data' = r.data
          /\ dp_err' = r.err
          /\ dp_pc' = IF r.err = "none" THEN "reading" ELSE "raised"
    /\ dp_lines' = Tail(dp_lines)
    /\ UNCHANGED <<dp_input, dp_out, dp_calls>>
    /\ UNCHANGED <<varsRead, varsGet, varsPipe>>

\* Lines 114-116: the provider is exhausted; populate, format and return.
ParseFinish ==
    /\ dp_pc = "reading"
    /\ dp_lines = <<>>
    /\ dp_calls' = AllBaselineCalls(dp_data)
    /\ dp_data' = PopulateAll(dp_data)
    /\ dp_out' = FormatBaselines(PopulateAll(dp_data))
    /\ dp_pc' = "returned"
    /\ UNCHANGED <<dp_input, dp_lines, dp_err>>
    /\ UNCHANGED <<varsRead, varsGet, varsPipe>>

NextParse == ParseLine \/ ParseFinish

SpecParse == InitParse /\ [][NextParse]_vars

-----------------------------------------------------------------------------
(* Claims about DataParser.parse (checked under SpecParse).                *)

RequestedMs == {"iops", "bw"}
RequestedSt == "Avg"

HasContext(rec) ==
    /\ "results" \in DOMAIN rec.items
    /\ "custom" \in DOMAIN rec.items
    /\ "cpu_model_name" \in DOMAIN rec.items["custom"].items

\* A record with every expected key and tags of the form kernel/rootfs/config.
WellFormed(rec) ==
    /\ HasContext(rec)
    /\ \A t \in DOMAIN rec.items["results"].items :
          /\ t \in {"k/r/" \o c : c \in Configs}
          /\ \A ms \in RequestedMs :
                /\ ms \in DOMAIN rec.items["results"].items[t].items
                /\ RequestedSt \in DOMAIN rec.items["results"].items[t].items[ms].items

\* C5 (as claimed): parse returns a document only if every record was well
\* formed, and calculate_baseline never gets a list holding None.
C5_MalformedIsHardError ==
    /\ dp_pc = "returned" => \A i \in 1..Len(dp_input) : WellFormed(dp_input[i])
    /\ \A i \in 1..Len(dp_calls) :
          \A j \in 1..Len(dp_calls[i][2]) : dp_calls[i][2][j] # NoneV

KeyPaths ==
    {<<m, ms, "k", "r", RequestedSt, c>> : m \in CpuModels, ms \in RequestedMs, c \in Configs}

\* The value record rec holds for the key path, <<>> when it holds none.
RecordValue(rec, path) ==
    LET tag == path[3] \o "/" \o path[4] \o "/" \o path[6]
    IN IF /\ rec.items["custom"].items["cpu_model_name"].s = path[1]
          /\ tag \in DOMAIN rec.items["results"].items
          /\ path[2] \in DOMAIN rec.items["results"].items[tag].items
       THEN <<rec.items["results"].items[tag].items[path[2]].items[path[5]]>>
       ELSE <<>>

RECURSIVE Observed(_, _)
\* The values the records hold for the key path, in record order.
Observed(recs, path) ==
    IF recs = <<>> THEN <<>>
    ELSE RecordValue(recs[1], path) \o Observed(Tail(recs), path)

\* The entry of the returned documents at the key path, None when a level
\* of the path is missing.
OutLeaf(path) ==
    LET docs == {i \in 1..Len(dp_out) : dp_out[i].items["model"] = Str(path[1])}
        Walk[i \in 1..Len(path)] ==
            IF i = 1
            THEN (IF docs = {} THEN NoneV ELSE dp_out[CHOOSE d \in docs : TRUE])
            ELSE IF Walk[i - 1].kind = "dict" /\ path[i] \in DOMAIN Walk[i - 1].items
                 THEN Walk[i - 1].items[path[i]] ELSE NoneV
    IN Walk[Len(path)]

RECURSIVE NoEmptyBranch(_)
NoEmptyBranch(node) ==
    node.kind = "dict" =>
        /\ DOMAIN node.items # {}
        /\ \A k \in DOMAIN node.items : NoEmptyBranch(node.items[k])

\* C6: when parse returns from well-formed records, the documents hold an
\* entry exactly at the key paths the records hold a value for (one document
\* per CPU model, no branch without an entry), each entry is
\* calculate_baseline of the values observed for its path in record order,
\* and calculate_baseline was called exactly once per such path and for
\* nothing else.
C6_LeafIsBaselineOfObserved ==
    (dp_pc = "returned" /\ \A i \in 1..Len(dp_input) : WellFormed(dp_input[i])) =>
        /\ \A path \in KeyPaths :
              LET obs == Observed(dp_input, path)
              IN /\ OutLeaf(path) = IF obs = <<>> THEN NoneV ELSE CalculateBaseline(obs)
                 /\ Cardinality({i \in 1..Len(dp_calls) : dp_calls[i][1] = path})
                        = IF obs = <<>> THEN 0 ELSE 1
        /\ \A i \in 1..Len(dp_calls) : dp_calls[i][1] \in KeyPaths
        /\ \A i, j \in 1..Len(dp_out) :
              dp_out[i].items["model"] = dp_out[j].items["model"] => i = j
        /\ \A i \in 1..Len(dp_out) : NoEmptyBranch(dp_out[i])

\* Two well-formed records of one key path, with different values: the entry
\* is the baseline of both values in record order.
C6_Witness ==
    /\ dp_pc = "returned"
    /\ Len(dp_input) = 2
    /\ \A i \in 1..Len(dp_input) : WellFormed(dp_input[i])
    /\ OutLeaf(<<"Intel", "iops", "k", "r", "Avg", "c1">>) = CalculateBaseline(<<Num(2), Num(1)>>)

====
